---- MODULE Spec2Model ----
(***************************************************************************)
(* Form-state reconciliation of the admin panel: the blocks field's row    *)
(* handlers (BlocksFieldComponent), the server-side buildFormState and the *)
(* edit session that dispatches form-state requests.                       *)
(*                                                                         *)
(* The entity is the upload collection "posts" with a required text field  *)
(* "title" and a blocks field "items" whose single block has a text field  *)
(* "text".  Form state is the flat mapping from data path to field state.  *)
(***************************************************************************)
EXTENDS Integers, Sequences, FiniteSets, TLC

\* ---------------------------------------------------------------- bounds
MaxLen == 3          \* rows a blocks field may hold in the model
MaxId == 3           \* row ids uuid() may hand out
MaxToken == 2        \* form-state requests one edit session dispatches
MaxTime == 3         \* ticks of the server's clock
MaxStack == 6        \* frames the call stack of one instance holds

\* ------------------------------------------------------- configuration
collectionSlug == "posts"
blockSlug == "block"
upload == TRUE               \* payload.collections[collectionSlug].config.upload
required == TRUE             \* field.required of "items"
minRowsProp == 1             \* field.minRows of "items"
maxRows == 2                 \* field.maxRows of "items"
locale == "en"
localization == [configured |-> TRUE, fallback |-> TRUE, defaultLocale |-> "en"]

Values == {0, 1}             \* leaf values; 0 is the empty value
NoId == 0                    \* a data row that carries no id yet
BlockType == 1               \* the discriminant of the single block
Undefined == 0               \* a missing leaf of the reduced document
UndefinedProp == -1          \* a field property that is not configured
Null == -2                   \* the value null of a blocks field

\* ------------------------------------------------------------- sequences
InsertAt(s, i, x) == SubSeq(s, 1, i) \o <<x>> \o SubSeq(s, i + 1, Len(s))

RemoveAt(s, i) == SubSeq(s, 1, i) \o SubSeq(s, i + 2, Len(s))

MaxOf(S) == CHOOSE m \in S : \A k \in S : k <= m

\* ----------------------------------------------------------------- paths
\* A data path: the field name, the row index (-1 outside a row) and the
\* name of the sub field inside the row ("" outside a row).
Path(f, i, s) == [field |-> f, idx |-> i, sub |-> s]

TitlePath == Path("title", -1, "")

ItemsPath == Path("items", -1, "")

FilePath == Path("file", -1, "")

RowPath(i, s) == Path("items", i, s)

RowSubs == {"id", "blockType", "text"}

IsRowPath(p) == p.field = "items" /\ p.idx >= 0

\* ----------------------------------------------------------- field state
Leaf(v, ok) ==
  [value |-> v, valid |-> ok, errorMessage |-> IF ok THEN "" ELSE "required",
   rows |-> <<>>]

RowsField(rs, msg) ==
  [value |-> Len(rs), valid |-> (msg = "true"),
   errorMessage |-> IF msg = "true" THEN "" ELSE msg, rows |-> rs]

Row(id, c) == [id |-> id, collapsed |-> c]

\* ------------------------------------------------------------ validation
\* The validation capability of a blocks field: "true" or an error message.
validate(value, options) ==
  LET arrayLength == IF value = Null THEN 0 ELSE value
  IN  IF arrayLength < options.minRows THEN "requiresAtLeast"
      ELSE IF options.maxRows > 0 /\ arrayLength > options.maxRows THEN "requiresNoMoreThan"
      ELSE IF options.required /\ arrayLength = 0 THEN "required"
      ELSE "true"

\* The validation capability of a required text field.
validateText(value) == value # 0

\* ------------------------------------------------------ field schema map
EntitySchemaPath == <<collectionSlug>>

ItemsSchemaPath == <<collectionSlug, "items">>

TitleSchemaPath == <<collectionSlug, "title">>

fieldSchemaMap ==
  (EntitySchemaPath :> [type |-> "collection", fields |-> <<"title", "items">>]) @@
  (TitleSchemaPath :> [type |-> "text", fields |-> <<>>]) @@
  (ItemsSchemaPath :> [type |-> "blocks", fields |-> <<>>]) @@
  (<<collectionSlug, "items", blockSlug>> :>
      [type |-> "block", fields |-> <<"id", "blockType", "text">>]) @@
  (<<collectionSlug, "items", blockSlug, "text">> :>
      [type |-> "text", fields |-> <<>>])

SchemaPaths == DOMAIN fieldSchemaMap \cup {<<collectionSlug, "nope">>}

\* ---------------------------------------------------------- path addressing
\* Paths as sequences of string segments: a row index is written in digits,
\* the position of a row in a schema path is the segment of the block.
IndexSegments == <<"0", "1", "2", "3", "4", "5", "6", "7", "8", "9">>

IsIndexSegment(segment) == \E k \in 1..Len(IndexSegments) : IndexSegments[k] = segment

\* The segments of the form-state key p.
DataPathOf(p) ==
  IF p.idx < 0 THEN <<p.field>>
  ELSE IF p.sub = "" THEN <<p.field, IndexSegments[p.idx + 1]>>
  ELSE <<p.field, IndexSegments[p.idx + 1], p.sub>>

\* Number of row positions among the first k segments of a schema path.
RECURSIVE RowSegmentsUpTo(_, _)
RowSegmentsUpTo(schemaPath, k) ==
  IF k <= 0 THEN 0
  ELSE RowSegmentsUpTo(schemaPath, k - 1) + (IF schemaPath[k] = blockSlug THEN 1 ELSE 0)

\* toSchemaPath that leaves the row indices in place.
toSchemaPathKeepsIndices(dataPath) == <<collectionSlug>> \o dataPath

\* toSchemaPath(dataPath): the entity's slug, then the segments of the data
\* path with every row index replaced by the row-position segment.
toSchemaPath(dataPath) ==
  <<collectionSlug>> \o
  [k \in 1..Len(dataPath) |->
     IF IsIndexSegment(dataPath[k]) THEN blockSlug ELSE dataPath[k]]

\* toDataPath(schemaPath, rowIndices): the segments after the entity's slug
\* with the j-th row position replaced by the j-th index.
toDataPath(schemaPath, rowIndices) ==
  [k \in 1..(Len(schemaPath) - 1) |->
     IF schemaPath[k + 1] = blockSlug
     THEN IndexSegments[rowIndices[RowSegmentsUpTo(schemaPath, k + 1)] + 1]
     ELSE schemaPath[k + 1]]

\* ------------------------------------------------- reduceFieldsToValues
RowIdxs(fs) == {p.idx : p \in {q \in DOMAIN fs : IsRowPath(q)}}

RowCount(fs) == IF RowIdxs(fs) = {} THEN 0 ELSE MaxOf(RowIdxs(fs)) + 1

LeafValue(fs, p) == IF p \in DOMAIN fs THEN fs[p].value ELSE Undefined

\* The nested document of a form state (hidden fields included): the rows
\* of "items" are rebuilt from the indexed keys items.<i>.<sub>.
reduceFieldsToValues(fs) ==
  [title |-> LeafValue(fs, TitlePath),
   items |-> [i \in 1..RowCount(fs) |->
                [id |-> LeafValue(fs, RowPath(i - 1, "id")),
                 blockType |-> LeafValue(fs, RowPath(i - 1, "blockType")),
                 text |-> LeafValue(fs, RowPath(i - 1, "text"))]]]

\* --------------------------------------------- fieldSchemasToFormState
\* Number of rows before position i (1-based) that carry no id.
RECURSIVE NoIdBefore(_, _)
NoIdBefore(items, i) ==
  IF i <= 1 THEN 0
  ELSE NoIdBefore(items, i - 1) + (IF items[i - 1].id = NoId THEN 1 ELSE 0)

\* The id of data row i: its own when it has one, else a fresh one.
RowIdOf(items, i, fresh) ==
  IF items[i].id # NoId THEN items[i].id ELSE fresh + NoIdBefore(items, i)

FreshUsed(items) == NoIdBefore(items, Len(items) + 1)

\* preferences.fields[path].collapsed; undefined preferences collapse nothing.
CollapsedIn(preferences, id) == preferences.defined /\ id \in preferences.collapsed

ItemsStates(items, preferences, fresh) ==
  LET n == Len(items)
      rs == [i \in 1..n |->
               Row(RowIdOf(items, i, fresh),
                   CollapsedIn(preferences, RowIdOf(items, i, fresh)))]
      msg == validate(n, [minRows |-> minRowsProp, maxRows |-> maxRows,
                          required |-> required])
      keys == {RowPath(i, s) : i \in 0..(n - 1), s \in RowSubs}
  IN  (ItemsPath :> RowsField(rs, msg)) @@
      [p \in keys |->
         IF p.sub = "id" THEN Leaf(RowIdOf(items, p.idx + 1, fresh), TRUE)
         ELSE IF p.sub = "blockType" THEN Leaf(items[p.idx + 1].blockType, TRUE)
         ELSE Leaf(items[p.idx + 1].text, TRUE)]

TitleStates(data) ==
  TitlePath :> Leaf(data.title, validateText(data.title))

\* Field states of the given fields built from data alone.
NoStates == [p \in {} |-> Leaf(0, TRUE)]

fieldSchemasToFormState(data, fields, preferences, fresh) ==
  (IF "title" \in fields THEN TitleStates(data) ELSE NoStates) @@
  (IF "items" \in fields THEN ItemsStates(data.items, preferences, fresh)
   ELSE NoStates)

\* ------------------------------------------------------- buildFormState
NoPreferences == [defined |-> FALSE, collapsed |-> {}]

Prefs(ids) == [defined |-> TRUE, collapsed |-> ids]

\* The fields whose state is built for a schema path: the entity's fields,
\* the sub fields of the entry, or the entry itself wrapped in a list.
FieldsOf(schemaPath) ==
  LET fieldOrEntityConfig == fieldSchemaMap[schemaPath]
  IN  IF Len(fieldOrEntityConfig.fields) > 0
      THEN {fieldOrEntityConfig.fields[k] : k \in 1..Len(fieldOrEntityConfig.fields)}
      ELSE {schemaPath[Len(schemaPath)]}

Failure(msg) == [err |-> msg, state |-> NoStates, fresh |-> 0]

\* buildFormState without the block that maintains the upload entry.
buildFormStateWithoutFile(args, fresh) ==
  IF args.schemaPath \notin DOMAIN fieldSchemaMap
  THEN Failure("Could not find in the fieldSchemaMap")
  ELSE IF Len(fieldSchemaMap[args.schemaPath].fields) = 0
          /\ fieldSchemaMap[args.schemaPath].type # "blocks"
  THEN Failure("does not contain any subfields")
  ELSE
    LET data == IF args.hasFormState THEN reduceFieldsToValues(args.formState)
                ELSE args.data
        fields == FieldsOf(args.schemaPath)
    IN  [err |-> "none",
         state |-> fieldSchemasToFormState(data, fields, args.docPreferences, fresh),
         fresh |-> IF "items" \in fields THEN FreshUsed(data.items) ELSE 0]

\* buildFormState that never deduces the data from the form state.
buildFormStateFromIncomingData(args, fresh) ==
  IF args.schemaPath \notin DOMAIN fieldSchemaMap
  THEN Failure("Could not find in the fieldSchemaMap")
  ELSE IF Len(fieldSchemaMap[args.schemaPath].fields) = 0
          /\ fieldSchemaMap[args.schemaPath].type # "blocks"
  THEN Failure("does not contain any subfields")
  ELSE
    LET data == args.data
        fields == FieldsOf(args.schemaPath)
        file == IF args.hasFormState /\ upload /\ FilePath \in DOMAIN args.formState
                THEN FilePath :> args.formState[FilePath]
                ELSE NoStates
    IN  [err |-> "none",
         state |-> file @@ fieldSchemasToFormState(data, fields, args.docPreferences, fresh),
         fresh |-> IF "items" \in fields THEN FreshUsed(data.items) ELSE 0]

\* buildFormState that takes the incoming data when a form state is given
\* and deduces the data from the form state when none is given.
buildFormStateSwappedData(args, fresh) ==
  IF args.schemaPath \notin DOMAIN fieldSchemaMap
  THEN Failure("Could not find in the fieldSchemaMap")
  ELSE IF Len(fieldSchemaMap[args.schemaPath].fields) = 0
          /\ fieldSchemaMap[args.schemaPath].type # "blocks"
  THEN Failure("does not contain any subfields")
  ELSE
    LET data == IF args.hasFormState THEN args.data
                ELSE reduceFieldsToValues(args.formState)
        fields == FieldsOf(args.schemaPath)
        file == IF args.hasFormState /\ upload /\ FilePath \in DOMAIN args.formState
                THEN FilePath :> args.formState[FilePath]
                ELSE NoStates
    IN  [err |-> "none",
         state |-> file @@ fieldSchemasToFormState(data, fields, args.docPreferences, fresh),
         fresh |-> IF "items" \in fields THEN FreshUsed(data.items) ELSE 0]

\* buildFormState that lets the title of the incoming data override the one
\* deduced from the form state.
buildFormStateKeepsIncomingTitle(args, fresh) ==
  IF args.schemaPath \notin DOMAIN fieldSchemaMap
  THEN Failure("Could not find in the fieldSchemaMap")
  ELSE IF Len(fieldSchemaMap[args.schemaPath].fields) = 0
          /\ fieldSchemaMap[args.schemaPath].type # "blocks"
  THEN Failure("does not contain any subfields")
  ELSE
    LET data == IF args.hasFormState
                THEN [reduceFieldsToValues(args.formState) EXCEPT
                        !.title = args.data.title]
                ELSE args.data
        fields == FieldsOf(args.schemaPath)
        file == IF args.hasFormState /\ upload /\ FilePath \in DOMAIN args.formState
                THEN FilePath :> args.formState[FilePath]
                ELSE NoStates
    IN  [err |-> "none",
         state |-> file @@ fieldSchemasToFormState(data, fields, args.docPreferences, fresh),
         fresh |-> IF "items" \in fields THEN FreshUsed(data.items) ELSE 0]

\* buildFormState that aborts when a field rebuilt from the form state it
\* was given is invalid.
buildFormStateAbortsOnInvalid(args, fresh) ==
  IF args.schemaPath \notin DOMAIN fieldSchemaMap
  THEN Failure("Could not find in the fieldSchemaMap")
  ELSE IF Len(fieldSchemaMap[args.schemaPath].fields) = 0
          /\ fieldSchemaMap[args.schemaPath].type # "blocks"
  THEN Failure("does not contain any subfields")
  ELSE
    LET data == IF args.hasFormState THEN reduceFieldsToValues(args.formState)
                ELSE args.data
        fields == FieldsOf(args.schemaPath)
        formStateResult ==
          fieldSchemasToFormState(data, fields, args.docPreferences, fresh)
        file == IF args.hasFormState /\ upload /\ FilePath \in DOMAIN args.formState
                THEN FilePath :> args.formState[FilePath]
                ELSE NoStates
    IN  IF args.hasFormState
             /\ \E p \in DOMAIN formStateResult : ~formStateResult[p].valid
        THEN Failure("The following field is invalid")
        ELSE [err |-> "none", state |-> file @@ formStateResult,
              fresh |-> IF "items" \in fields THEN FreshUsed(data.items) ELSE 0]

\* args: data, hasFormState, formState, docPreferences, schemaPath.
\* fresh is the next id the server would generate for a row without one.
buildFormState(args, fresh) ==
  IF args.schemaPath \notin DOMAIN fieldSchemaMap
  THEN Failure("Could not find in the fieldSchemaMap")
  ELSE IF Len(fieldSchemaMap[args.schemaPath].fields) = 0
          /\ fieldSchemaMap[args.schemaPath].type # "blocks"
  THEN Failure("does not contain any subfields")
  ELSE
    LET data == IF args.hasFormState THEN reduceFieldsToValues(args.formState)
                ELSE args.data
        fields == FieldsOf(args.schemaPath)
        formStateResult ==
          fieldSchemasToFormState(data, fields, args.docPreferences, fresh)
        \* Maintain form state of auth / upload fields
        file == IF args.hasFormState /\ upload /\ FilePath \in DOMAIN args.formState
                THEN FilePath :> args.formState[FilePath]
                ELSE NoStates
    IN  [err |-> "none", state |-> file @@ formStateResult,
         fresh |-> IF "items" \in fields THEN FreshUsed(data.items) ELSE 0]

\* ---------------------------------------------------------- row helpers
\* toggleAllRows({ collapsed, rows })
toggleAllRows(collapsed, rows) ==
  [updatedRows |-> [i \in 1..Len(rows) |-> Row(rows[i].id, collapsed)],
   collapsedIDs |-> IF collapsed THEN {rows[i].id : i \in 1..Len(rows)} ELSE {}]

\* extractRowsAndCollapsedIDs that reports the toggled row alone.
extractRowsAndCollapsedIDsOfTarget(collapsed, rowID, rows) ==
  [updatedRows |-> [i \in 1..Len(rows) |->
                      IF rows[i].id = rowID THEN Row(rows[i].id, collapsed)
                      ELSE rows[i]],
   collapsedIDs |-> IF collapsed THEN {rowID} ELSE {}]

\* extractRowsAndCollapsedIDs({ collapsed, rowID, rows })
extractRowsAndCollapsedIDs(collapsed, rowID, rows) ==
  LET updated == [i \in 1..Len(rows) |->
                    IF rows[i].id = rowID THEN Row(rows[i].id, collapsed)
                    ELSE rows[i]]
  IN  [updatedRows |-> updated,
       collapsedIDs |-> {updated[i].id : i \in {k \in 1..Len(rows) : updated[k].collapsed}}]

\* ------------------------------------------------------- form state store
\* The sub trees of the rows of "items", one function sub -> field state
\* per row, and the entries that belong to no row.
separateRows(fs) ==
  [remainingFields |-> [p \in {q \in DOMAIN fs : ~IsRowPath(q)} |-> fs[p]],
   rows |-> [i \in 1..RowCount(fs) |-> [s \in RowSubs |-> fs[RowPath(i - 1, s)]]]]

flattenRows(rows) ==
  [p \in {RowPath(i, s) : i \in 0..(Len(rows) - 1), s \in RowSubs} |->
     rows[p.idx + 1][p.sub]]

WithRows(fs, rowsMetadata, rows) ==
  flattenRows(rows) @@
  (ItemsPath :> [fs[ItemsPath] EXCEPT !.rows = rowsMetadata, !.value = Len(rows)]) @@
  separateRows(fs).remainingFields

StoreError(fs) == [err |-> "StateIndexError", state |-> fs]

StoreOk(fs) == [err |-> "none", state |-> fs]

InBounds(fs, i) == ItemsPath \in DOMAIN fs /\ i >= 0 /\ i < Len(fs[ItemsPath].rows)

REMOVE_ROW(fs, rowIndex) ==
  IF ~InBounds(fs, rowIndex) THEN StoreError(fs)
  ELSE StoreOk(WithRows(fs, RemoveAt(fs[ItemsPath].rows, rowIndex),
                        RemoveAt(separateRows(fs).rows, rowIndex)))

MOVE_ROW(fs, moveFromIndex, moveToIndex) ==
  IF ~InBounds(fs, moveFromIndex) \/ ~InBounds(fs, moveToIndex) THEN StoreError(fs)
  ELSE LET meta == fs[ItemsPath].rows
           rows == separateRows(fs).rows
       IN  StoreOk(WithRows(fs,
             InsertAt(RemoveAt(meta, moveFromIndex), moveToIndex, meta[moveFromIndex + 1]),
             InsertAt(RemoveAt(rows, moveFromIndex), moveToIndex, rows[moveFromIndex + 1])))

DUPLICATE_ROW(fs, rowIndex, newId) ==
  IF ~InBounds(fs, rowIndex) THEN StoreError(fs)
  ELSE LET meta == fs[ItemsPath].rows
           rows == separateRows(fs).rows
           source == rows[rowIndex + 1]
           copy == [source EXCEPT !["id"] = Leaf(newId, TRUE)]
           copyMeta == [meta[rowIndex + 1] EXCEPT !.id = newId]
       IN  StoreOk(WithRows(fs, InsertAt(meta, rowIndex + 1, copyMeta),
                            InsertAt(rows, rowIndex + 1, copy)))

SET_ROWS(fs, updatedRows) ==
  [fs EXCEPT ![ItemsPath] = [@ EXCEPT !.rows = updatedRows]]

UPDATE(fs, p, value) ==
  IF p \notin DOMAIN fs /\ p # FilePath THEN fs
  ELSE (p :> Leaf(value, IF p = TitlePath THEN validateText(value) ELSE TRUE)) @@ fs

\* dispatchFields(action): the reducer of the form state.
dispatchFields(fs, action) ==
  IF action.type = "REMOVE_ROW" THEN REMOVE_ROW(fs, action.rowIndex)
  ELSE IF action.type = "MOVE_ROW"
    THEN MOVE_ROW(fs, action.moveFromIndex, action.moveToIndex)
  ELSE IF action.type = "DUPLICATE_ROW"
    THEN DUPLICATE_ROW(fs, action.rowIndex, action.newId)
  ELSE IF action.type \in {"SET_ALL_ROWS_COLLAPSED", "SET_ROW_COLLAPSED"}
    THEN StoreOk(SET_ROWS(fs, action.updatedRows))
  ELSE StoreOk(UPDATE(fs, action.path, action.value))

Action(type) ==
  [type |-> type, rowIndex |-> 0, moveFromIndex |-> 0, moveToIndex |-> 0,
   newId |-> 0, updatedRows |-> <<>>, path |-> ItemsPath, value |-> 0]

\* Entries of the server result replace the entries of the requested schema
\* path; entries outside it are kept.
InScope(schemaPath, p) ==
  schemaPath = EntitySchemaPath \/ (schemaPath = ItemsSchemaPath /\ p.field = "items")

mergeServerFormState(existing, schemaPath, incoming) ==
  incoming @@
  [p \in {q \in DOMAIN existing : ~InScope(schemaPath, q)} |-> existing[p]]

\* ------------------------------------------------------ blocks field hooks
\* What the component reads when it renders: the locale of useLocale, the
\* localization of the client config, whether its validate prop is a
\* function, and minRows and required of its field.
VARIABLES editing

\* const minRows = (minRowsProp ?? required) ? 1 : 0
minRows ==
  IF (IF editing.minRowsProp = UndefinedProp THEN editing.required
      ELSE editing.minRowsProp # 0)
  THEN 1 ELSE 0

Locales == {"en", "de"}

\* config.localization: not configured, or configured with or without
\* fallback and with or without a default locale.
Localizations ==
  {[configured |-> FALSE, fallback |-> FALSE, defaultLocale |-> ""]}
  \cup {[configured |-> TRUE, fallback |-> f, defaultLocale |-> d] :
          f \in BOOLEAN, d \in Locales \cup {""}}

\* An editingDefaultLocale that compares the locales whether or not fallback
\* is enabled.
editingDefaultLocaleWithoutFallback ==
  IF editing.localization.configured
  THEN editing.locale = (IF editing.localization.defaultLocale = ""
                         THEN "en" ELSE editing.localization.defaultLocale)
  ELSE TRUE

editingDefaultLocale ==
  IF editing.localization.configured /\ editing.localization.fallback
  THEN editing.locale = (IF editing.localization.defaultLocale = ""
                         THEN "en" ELSE editing.localization.defaultLocale)
  ELSE TRUE

\* One call of memoizedValidate: whether the validate function of the field
\* was called, the options it was called with and what the call returns
\* ("undefined" when it ends without a return).
NoOptions == [maxRows |-> UndefinedProp, minRows |-> UndefinedProp, required |-> FALSE]

memoizedValidateCall(value) ==
  IF ~editingDefaultLocale /\ value = Null
  THEN [value |-> value, consulted |-> FALSE, options |-> NoOptions, result |-> "true"]
  ELSE IF editing.validateIsFunction
  THEN LET options == [maxRows |-> maxRows, minRows |-> minRows,
                       required |-> editing.required]
       IN  [value |-> value, consulted |-> TRUE, options |-> options,
            result |-> validate(value, options)]
  ELSE [value |-> value, consulted |-> FALSE, options |-> NoOptions,
        result |-> "undefined"]

memoizedValidate(value) == memoizedValidateCall(value).result

\* useField that never runs the validate function it is given.
useFieldWithoutValidate(fs) == fs

\* useField({ hasRows: true, validate: memoizedValidate }): validity of the
\* blocks field follows its value.
useField(fs) ==
  IF ItemsPath \notin DOMAIN fs THEN fs
  ELSE LET msg == memoizedValidate(fs[ItemsPath].value)
       IN  [fs EXCEPT ![ItemsPath] =
              [@ EXCEPT !.valid = (msg = "true"),
                        !.errorMessage = IF msg = "true" THEN "" ELSE msg]]

getDataByPath(fs) == reduceFieldsToValues(fs).items

\* ------------------------------------------------------ locking coordinator
NoUser == ""

Users == {"u1", "u2"}

lockDuration == 2            \* the staleness threshold, in ticks

NoLock == [owner |-> NoUser, lastEditedAt |-> 0]

NoLockState == [defined |-> FALSE, isLocked |-> FALSE, lastEditedAt |-> 0,
                editingUser |-> NoUser]

LockState(isLocked, lastEditedAt, editingUser) ==
  [defined |-> TRUE, isLocked |-> isLocked, lastEditedAt |-> lastEditedAt,
   editingUser |-> editingUser]

\* acquireOrRefreshLock that never reclaims or refreshes a lock.
acquireOrRefreshLockReadOnly(lockDoc, currentUser, time) ==
  [lock |-> lockDoc,
   lockState |-> LockState(lockDoc.owner \notin {NoUser, currentUser},
                           lockDoc.lastEditedAt, lockDoc.owner)]

\* acquireOrRefreshLock that takes over the lock of another user at once.
acquireOrRefreshLockTakesOver(lockDoc, currentUser, time) ==
  [lock |-> [owner |-> currentUser, lastEditedAt |-> time],
   lockState |-> LockState(FALSE, time, currentUser)]

\* acquireOrRefreshLock that leaves the lock of another user alone however
\* old it is.
acquireOrRefreshLockKeepsStale(lockDoc, currentUser, time) ==
  IF lockDoc.owner = NoUser \/ lockDoc.owner = currentUser
  THEN [lock |-> [owner |-> currentUser, lastEditedAt |-> time],
        lockState |-> LockState(FALSE, time, currentUser)]
  ELSE [lock |-> lockDoc,
        lockState |-> LockState(TRUE, lockDoc.lastEditedAt, lockDoc.owner)]

\* acquireOrRefreshLock(documentRef, currentUser) -> LockState, with the lock
\* document it leaves behind.
acquireOrRefreshLock(lockDoc, currentUser, time) ==
  IF lockDoc.owner = NoUser \/ lockDoc.owner = currentUser
       \/ time - lockDoc.lastEditedAt >= lockDuration
  THEN [lock |-> [owner |-> currentUser, lastEditedAt |-> time],
        lockState |-> LockState(FALSE, time, currentUser)]
  ELSE [lock |-> lockDoc,
        lockState |-> LockState(TRUE, lockDoc.lastEditedAt, lockDoc.owner)]

\* A write of the lock document that goes through only when the document is
\* still the one the call read (the first acquisition wins).
writeLockIfUnchanged(lockDoc, seen, currentUser, time) ==
  IF lockDoc = seen THEN [owner |-> currentUser, lastEditedAt |-> time] ELSE lockDoc

\* The write of an acquisition: the lock document is overwritten, whatever
\* it holds by then (last write wins).
writeLock(lockDoc, seen, currentUser, time) ==
  [owner |-> currentUser, lastEditedAt |-> time]

\* A persistence layer that takes writes from the owner of the lock only.
canWriteOwnerOnly(lockDoc, user) == lockDoc.owner \in {NoUser, user}

\* Whether the persistence layer takes a write of the document by user: the
\* lock is advisory.
canWrite(lockDoc, user) == TRUE

\* A call of acquireOrRefreshLock by one user: where it stands, the lock
\* document it read and the LockState it returns.
NoLockCall == [pc |-> "idle", seen |-> NoLock, result |-> NoLockState]

\* The stored document: who wrote it last, and whether a write was rejected.
NoDocument == [updatedBy |-> NoUser, rejected |-> FALSE]

\* ------------------------------------------------ field schema map cache
\* The entities of the configuration and the languages a request's i18n may
\* carry.
Collections == {collectionSlug, "users"}

Globals == {"settings"}

Languages == {"en", "de"}

NoSlug == ""                 \* a slug that is undefined

\* args of getFieldSchemaMap: { collectionSlug, config, globalSlug, i18n }
SchemaMapArgs ==
  {[collectionSlug |-> c, globalSlug |-> NoSlug, i18n |-> l] :
     c \in Collections, l \in Languages}
  \cup {[collectionSlug |-> NoSlug, globalSlug |-> g, i18n |-> l] :
          g \in Globals, l \in Languages}

\* buildFieldSchemaMap({ collectionSlug, config, globalSlug, i18n }): the map
\* of one entity, built with the i18n it is given.
buildFieldSchemaMap(args) ==
  [entity |-> IF args.collectionSlug # NoSlug
              THEN <<"collection", args.collectionSlug>>
              ELSE <<"global", args.globalSlug>>,
   builtWith |-> args.i18n]

\* No map: what cachedFieldMap.get returns for a key it does not hold.
NoMap == [entity |-> <<"none", NoSlug>>, builtWith |-> ""]

\* A cache that keeps the maps of all entities under one key.
cacheKeyShared(args) == collectionSlug

\* collectionSlug || globalSlug
cacheKey(args) ==
  IF args.collectionSlug # NoSlug THEN args.collectionSlug ELSE args.globalSlug

CacheKeys == Collections \cup Globals

\* A call of getFieldSchemaMap: its arguments, the map it returned, whether
\* it looked into the cache and whether it built the map.
NoSchemaMapCall ==
  [args |-> [collectionSlug |-> NoSlug, globalSlug |-> NoSlug, i18n |-> ""],
   returned |-> NoMap, consulted |-> FALSE, built |-> FALSE]

\* The addRow call that awaits addFieldRow: whether there is one, and the
\* data it sent, built from the rows it read.
NoPendingAdd == [active |-> FALSE, data |-> <<>>]

\* ------------------------------------------------------ payloadCloudPlugin
\* The instances of the application that start on Payload Cloud.
Instances == {"a", "b"}

\* Before the plugin has run: the config has no onInit of the plugin, the
\* global 'payload-cloud-instance' is empty and no instance has started.
\* Of each instance: where its call of config.onInit stands, the frames of
\* the installed onInit on its stack, its calls of the onInit the incoming
\* config had and whether it has scheduled the cron jobs.
\* What the plugin is given: its options (storage and email not switched
\* off), the incoming config (whether it has an onInit and jobs.tasks; cloud
\* storage, cloud email and the global 'payload-cloud-instance' are not in it
\* yet) and the environment (PAYLOAD_CLOUD, and whether both
\* PAYLOAD_CLOUD_EMAIL_API_KEY and PAYLOAD_CLOUD_DEFAULT_DOMAIN are set).
PluginOptions == [storage : BOOLEAN, email : BOOLEAN]

IncomingConfigs ==
  [storage : {FALSE}, email : {FALSE}, cloudGlobal : {FALSE},
   tasks : BOOLEAN, onInit : {"none", "incoming"}]

Environments == [PAYLOAD_CLOUD : {"true", ""}, emailKeys : BOOLEAN]

NoConfig ==
  [storage |-> FALSE, email |-> FALSE, cloudGlobal |-> FALSE,
   tasks |-> FALSE, onInit |-> "none"]

\* What the promise of payloadCloudPlugin(pluginOptions)(incomingConfig)
\* resolves to.  The copy of the incoming config is returned at once when
\* PAYLOAD_CLOUD is not 'true'; otherwise storage and email are configured,
\* and the only other return is inside if (config.jobs?.tasks), after the
\* global and onInit are added: without tasks the function ends without a
\* return and the promise resolves to undefined.
resolvedConfig(pluginOptions, incomingConfig, env) ==
  IF env.PAYLOAD_CLOUD # "true"
  THEN [kind |-> "config", config |-> incomingConfig]
  ELSE LET withStorage ==
             [incomingConfig EXCEPT !.storage = pluginOptions.storage]
           withEmail ==
             [withStorage EXCEPT !.email = pluginOptions.email /\ env.emailKeys]
       IN  IF withEmail.tasks
           THEN [kind |-> "config",
                 config |-> [withEmail EXCEPT !.cloudGlobal = TRUE,
                                              !.onInit = "plugin"]]
           ELSE [kind |-> "undefined", config |-> NoConfig]

\* No call of the plugin yet.
NoPluginCall ==
  [called |-> FALSE, pluginOptions |-> [storage |-> FALSE, email |-> FALSE],
   incomingConfig |-> NoConfig,
   env |-> [PAYLOAD_CLOUD |-> "", emailKeys |-> FALSE],
   result |-> [kind |-> "none", config |-> NoConfig]]

NoCloud ==
  [plugin |-> NoPluginCall,
   installed |-> FALSE, incomingOnInit |-> FALSE, global |-> "",
   instances |-> [i \in Instances |->
                    [pc |-> "idle", depth |-> 0, incomingCalls |-> 0,
                     scheduled |-> FALSE]]]

\* ------------------------------------------------- schema paths to render
\* The keys of a form state in the order `for (const key in formState)`
\* visits them, and the keys of the field schema map in the order of
\* fieldSchemaMap.keys().
FormStateKeys == <<TitlePath, ItemsPath, RowPath(0, "text"), RowPath(1, "text")>>

fieldSchemaMapKeys ==
  CHOOSE keys \in [1..Cardinality(DOMAIN fieldSchemaMap) -> DOMAIN fieldSchemaMap] :
    {keys[k] : k \in DOMAIN keys} = DOMAIN fieldSchemaMap

\* The loop of lines 201-207 over the first k keys: the schemaPath of every
\* entry whose requiresRender is set is pushed, joined, in the order of the
\* keys.  A joined schema path is written as the sequence of its segments,
\* as the keys of fieldSchemaMap are.
RECURSIVE pushRequiresRender(_, _)
pushRequiresRender(formState, k) ==
  IF k = 0 THEN <<>>
  ELSE LET key == FormStateKeys[k]
           pushed == pushRequiresRender(formState, k - 1)
       IN  IF key \in DOMAIN formState /\ formState[key].requiresRender
           THEN Append(pushed, formState[key].schemaPath)
           ELSE pushed

\* The branches of lines 198-208 in the other order: the flags of a supplied
\* form state decide even when renderFields is set.
schemaPathsToRenderFormStateFirst(renderFields, hasFormState, formState) ==
  IF hasFormState THEN pushRequiresRender(formState, Len(FormStateKeys))
  ELSE IF renderFields THEN fieldSchemaMapKeys
  ELSE <<>>

\* const schemaPathsToRender = [] and lines 198-208 of buildFormState.
schemaPathsToRender(renderFields, hasFormState, formState) ==
  IF renderFields THEN fieldSchemaMapKeys
  ELSE IF hasFormState THEN pushRequiresRender(formState, Len(FormStateKeys))
  ELSE <<>>

NoRenderCall ==
  [called |-> FALSE, renderFields |-> FALSE, hasFormState |-> FALSE,
   formState |-> [p \in {} |-> [requiresRender |-> FALSE, schemaPath |-> <<>>]],
   schemaPathsToRender |-> <<>>]

\* What buildFormStateHandler returns: its kind ("success", "null",
\* "message", "errors" or "thrown"), whether the error was logged and
\* whether buildFormState was invoked.
NoResponse ==
  [kind |-> "none", message |-> "", logged |-> FALSE, built |-> FALSE,
   state |-> NoStates, lockedState |-> NoLockState]

\* ------------------------------------------------------------------ state
VARIABLES
  formState,        \* the form state of the edit session
  docPreferences,   \* collapsed row ids stored by setDocFieldPreferences
  modified,         \* the form's modified flag
  nextId,           \* the next id uuid() / the server hands out
  op,               \* the handler that ran last and how it ended
  lastDispatched,   \* token of the latest form-state request dispatched
  inflight,         \* form-state requests whose response has not arrived
  applied,          \* token of the response merged last
  lock,             \* the lock document of the edited document
  now,              \* the server's clock
  response,         \* what buildFormStateHandler returned last
  lockCalls,        \* the acquireOrRefreshLock call of each user
  storedDocument,   \* who wrote the edited document last
  nodeEnv,          \* process.env.NODE_ENV
  cachedFieldMap,   \* the cached field schema maps, by key
  schemaMapCall,    \* the last call of getFieldSchemaMap
  pendingAdd,       \* the addRow call that awaits addFieldRow
  validated,        \* the last call of memoizedValidate
  cloud,            \* the instances that run the cloud plugin's onInit
  renderCall        \* the schema paths to render of the last buildFormState

vars == <<formState, docPreferences, modified, nextId, op,
          lastDispatched, inflight, applied, lock, now, response,
          lockCalls, storedDocument, nodeEnv, cachedFieldMap, schemaMapCall,
          pendingAdd, editing, validated, cloud, renderCall>>

sessionVars == <<lastDispatched, inflight, applied>>

formVars == <<formState, docPreferences, modified, nextId>>

lockVars == <<lockCalls, storedDocument>>

cacheVars == <<nodeEnv, cachedFieldMap, schemaMapCall>>

validateVars == <<editing, validated>>

envVars == <<lockVars, cacheVars, pendingAdd, validateVars, cloud, renderCall>>

serverVars == <<lock, now, response, envVars>>

Op(kind, err) ==
  [kind |-> kind, err |-> err, schemaPath |-> <<>>, withPreferences |-> FALSE]

rows == formState[ItemsPath].rows

\* Documents an edit session may be opened on: rows stored without an id.
InitialDocs ==
  {[title |-> 1, items |-> <<>>],
   [title |-> 0, items |-> <<[id |-> NoId, blockType |-> BlockType, text |-> 1]>>]}

\* Document data a request may carry next to the form state.
StaleDocs == {[title |-> 0, items |-> <<>>]}

InitialArgs(doc) ==
  [data |-> doc, hasFormState |-> FALSE, formState |-> NoStates,
   docPreferences |-> NoPreferences, schemaPath |-> EntitySchemaPath]

Init ==
  \E doc \in InitialDocs :
    /\ formState = buildFormState(InitialArgs(doc), 1).state
    /\ nextId = 1 + buildFormState(InitialArgs(doc), 1).fresh
    /\ docPreferences = NoPreferences
    /\ modified = FALSE
    /\ op = Op("init", "none")
    /\ lastDispatched = 0
    /\ inflight = {}
    /\ applied = 0
    /\ lock = NoLock
    /\ now = 0
    /\ response = NoResponse
    /\ lockCalls = [u \in Users |-> NoLockCall]
    /\ storedDocument = NoDocument
    /\ nodeEnv = "production"
    /\ cachedFieldMap = [k \in CacheKeys |-> NoMap]
    /\ schemaMapCall = NoSchemaMapCall
    /\ pendingAdd = NoPendingAdd
    /\ editing = [locale |-> locale, localization |-> localization,
                  validateIsFunction |-> TRUE, minRowsProp |-> minRowsProp,
                  required |-> required]
    /\ validated = [value |-> 0, consulted |-> FALSE, options |-> NoOptions,
                    result |-> "none"]
    /\ cloud = NoCloud
    /\ renderCall = NoRenderCall

\* ---------------------------------------------------------------- handlers
\* addFieldRow({ data, path, schemaPath }): the form state of the field is
\* built from data by the server and merged into the form state.
addFieldRowArgs(data) ==
  [data |-> data, hasFormState |-> FALSE, formState |-> NoStates,
   docPreferences |-> docPreferences, schemaPath |-> ItemsSchemaPath]

addRow(rowIndex) ==
  /\ Len(rows) < MaxLen /\ nextId <= MaxId
  /\ LET newRow == [id |-> nextId, blockType |-> BlockType, text |-> Undefined]
         currentData == getDataByPath(formState)
         data == [title |-> Undefined, items |-> currentData \o <<newRow>>]
         res == buildFormState(addFieldRowArgs(data), nextId + 1)
     IN  /\ formState' = mergeServerFormState(formState, ItemsSchemaPath, res.state)
         /\ nextId' = nextId + 1 + res.fresh
         /\ op' = Op("addRow", res.err)
  /\ modified' = TRUE
  /\ UNCHANGED <<docPreferences, sessionVars, serverVars>>

\* A handler that dispatches one action to the reducer and marks the form
\* modified; a rejected action leaves everything as it was.
Dispatch(action, kind) ==
  LET r == dispatchFields(formState, action)
  IN  /\ formState' = IF r.err = "none" THEN useField(r.state) ELSE formState
      /\ modified' = IF r.err = "none" THEN TRUE ELSE modified
      /\ op' = Op(kind, r.err)

\* duplicateRow that dispatches the index of the row before.
duplicateRowOffByOne(rowIndex) ==
  /\ Len(rows) < MaxLen /\ nextId <= MaxId
  /\ Dispatch([Action("DUPLICATE_ROW") EXCEPT !.rowIndex = rowIndex - 1, !.newId = nextId],
              "duplicateRow")
  /\ nextId' = IF InBounds(formState, rowIndex - 1) THEN nextId + 1 ELSE nextId
  /\ UNCHANGED <<docPreferences, sessionVars, serverVars>>

duplicateRow(rowIndex) ==
  /\ Len(rows) < MaxLen /\ nextId <= MaxId
  /\ Dispatch([Action("DUPLICATE_ROW") EXCEPT !.rowIndex = rowIndex, !.newId = nextId],
              "duplicateRow")
  /\ nextId' = IF InBounds(formState, rowIndex) THEN nextId + 1 ELSE nextId
  /\ UNCHANGED <<docPreferences, sessionVars, serverVars>>

\* removeRow that dispatches the index of the next row.
removeRowOffByOne(rowIndex) ==
  /\ Dispatch([Action("REMOVE_ROW") EXCEPT !.rowIndex = rowIndex + 1], "removeRow")
  /\ UNCHANGED <<docPreferences, nextId, sessionVars, serverVars>>

removeRow(rowIndex) ==
  /\ Dispatch([Action("REMOVE_ROW") EXCEPT !.rowIndex = rowIndex],
              "removeRow")
  /\ UNCHANGED <<docPreferences, nextId, sessionVars, serverVars>>

\* moveRow that dispatches the two indices the wrong way round.
moveRowSwapped(moveFromIndex, moveToIndex) ==
  /\ Dispatch([Action("MOVE_ROW") EXCEPT !.moveFromIndex = moveToIndex,
                                         !.moveToIndex = moveFromIndex],
              "moveRow")
  /\ UNCHANGED <<docPreferences, nextId, sessionVars, serverVars>>

moveRow(moveFromIndex, moveToIndex) ==
  /\ Dispatch([Action("MOVE_ROW") EXCEPT !.moveFromIndex = moveFromIndex,
                                         !.moveToIndex = moveToIndex],
              "moveRow")
  /\ UNCHANGED <<docPreferences, nextId, sessionVars, serverVars>>

toggleCollapseAll(collapsed) ==
  LET t == toggleAllRows(collapsed, rows)
  IN  /\ formState' = SET_ROWS(formState, t.updatedRows)
      /\ docPreferences' = Prefs(t.collapsedIDs)
      /\ op' = Op("toggleCollapseAll", "none")
      /\ UNCHANGED <<modified, nextId, sessionVars, serverVars>>

\* setCollapse whose callback still sees the rows of the first render
\* (rows = [] by default).
setCollapseStaleRows(rowID, collapsed) ==
  LET t == extractRowsAndCollapsedIDs(collapsed, rowID, <<>>)
  IN  /\ formState' = SET_ROWS(formState, t.updatedRows)
      /\ docPreferences' = Prefs(t.collapsedIDs)
      /\ op' = Op("setCollapse", "none")
      /\ UNCHANGED <<modified, nextId, sessionVars, serverVars>>

setCollapse(rowID, collapsed) ==
  LET t == extractRowsAndCollapsedIDs(collapsed, rowID, rows)
  IN  /\ formState' = SET_ROWS(formState, t.updatedRows)
      /\ docPreferences' = Prefs(t.collapsedIDs)
      /\ op' = Op("setCollapse", "none")
      /\ UNCHANGED <<modified, nextId, sessionVars, serverVars>>

\* The user edits a leaf: picks a file.
Leaves == {FilePath}

setValue(p, value) ==
  /\ p \in DOMAIN formState \/ p = FilePath
  /\ formState' = UPDATE(formState, p, value)
  /\ modified' = TRUE
  /\ op' = Op("setValue", "none")
  /\ UNCHANGED <<docPreferences, nextId, sessionVars, serverVars>>

\* One form-state round trip that completes before the next UI event: the
\* request carries the form state and, optionally, the stored preferences.
RequestSchemaPaths ==
  {EntitySchemaPath, ItemsSchemaPath, TitleSchemaPath, <<collectionSlug, "nope">>}

RequestArgs(fs, data, schemaPath, withPreferences) ==
  [data |-> data, hasFormState |-> TRUE, formState |-> fs,
   docPreferences |-> IF withPreferences THEN docPreferences ELSE NoPreferences,
   schemaPath |-> schemaPath]

getFormState(data, schemaPath, withPreferences) ==
  LET res == buildFormState(RequestArgs(formState, data, schemaPath, withPreferences),
                            nextId)
  IN  /\ formState' = IF res.err = "none"
                      THEN mergeServerFormState(formState, schemaPath, res.state)
                      ELSE formState
      /\ nextId' = nextId + res.fresh
      /\ op' = [Op("getFormState", res.err) EXCEPT !.schemaPath = schemaPath,
                                                    !.withPreferences = withPreferences]
      /\ UNCHANGED <<docPreferences, modified, sessionVars, serverVars>>

\* Row indices a handler may be called with: every row and the position
\* after the last row; addRow also one position beyond it.
Indices == 0..Len(rows)

AddIndices == 0..(Len(rows) + 1)

RowIndices == 0..(Len(rows) - 1)

RowIds == {rows[i].id : i \in 1..Len(rows)}

\* const hasMaxRows = maxRows && rows.length >= maxRows
hasMaxRows == maxRows # 0 /\ Len(rows) >= maxRows

\* Every operation of the edit session, each called within its bounds.
Next ==
  \/ \E i \in AddIndices : addRow(i)
  \/ \E i \in RowIndices : duplicateRow(i)
  \/ \E i \in RowIndices : removeRow(i)
  \/ \E i \in RowIndices, j \in RowIndices : moveRow(i, j)
  \/ \E c \in BOOLEAN : toggleCollapseAll(c)
  \/ \E id \in RowIds, c \in BOOLEAN : setCollapse(id, c)
  \/ \E d \in StaleDocs, sp \in {EntitySchemaPath, ItemsSchemaPath}, w \in BOOLEAN :
       getFormState(d, sp, w)

Spec == Init /\ [][Next]_vars

TypeOK ==
  /\ ItemsPath \in DOMAIN formState
  /\ Len(rows) <= MaxLen
  /\ nextId <= MaxId + 2

\* Reconciliation: form-state round trips on form states the user built by
\* adding, removing and collapsing rows and by picking a file.
NextReconcile ==
  \/ \E i \in AddIndices : addRow(i)
  \/ \E i \in Indices : removeRow(i)
  \/ \E id \in RowIds, c \in BOOLEAN : setCollapse(id, c)
  \/ \E p \in Leaves : setValue(p, 1)
  \/ \E d \in StaleDocs, sp \in RequestSchemaPaths, w \in BOOLEAN :
       getFormState(d, sp, w)

SpecReconcile == Init /\ [][NextReconcile]_vars

\* The store alone: structural row operations and collapse toggles.
NextStore ==
  \/ \E i \in AddIndices : addRow(i)
  \/ \E i \in Indices : duplicateRow(i)
  \/ \E i \in Indices : removeRow(i)
  \/ \E i \in Indices, j \in Indices : moveRow(i, j)
  \/ \E c \in BOOLEAN : toggleCollapseAll(c)
  \/ \E id \in RowIds, c \in BOOLEAN : setCollapse(id, c)

SpecStore == Init /\ [][NextStore]_vars

\* Collapsing and expanding the rows of a field whose rows come and go.
NextCollapse ==
  \/ \E i \in AddIndices : addRow(i)
  \/ \E i \in RowIndices : removeRow(i)
  \/ \E c \in BOOLEAN : toggleCollapseAll(c)
  \/ \E id \in RowIds, c \in BOOLEAN : setCollapse(id, c)

SpecCollapse == Init /\ [][NextCollapse]_vars

\* ------------------------------------------------------------ edit session
\* A form-state request leaves with the next generation token; the server
\* computes its result from the form state the request carries.
SessionSchemaPaths == {EntitySchemaPath, ItemsSchemaPath}

dispatchRequest(schemaPath, withPreferences) ==
  /\ lastDispatched < MaxToken
  /\ LET res == buildFormState(
                  RequestArgs(formState, CHOOSE d \in StaleDocs : TRUE, schemaPath,
                              withPreferences), nextId)
     IN  inflight' = inflight \cup
           {[token |-> lastDispatched + 1, schemaPath |-> schemaPath, state |-> res.state]}
  /\ lastDispatched' = lastDispatched + 1
  /\ op' = Op("dispatchRequest", "none")
  /\ UNCHANGED <<formState, docPreferences, modified, nextId, applied, serverVars>>

\* arrive that merges every response, whatever its token.
arriveAlwaysMerges(r) ==
  /\ r \in inflight
  /\ inflight' = inflight \ {r}
  /\ formState' = mergeServerFormState(formState, r.schemaPath, r.state)
  /\ applied' = r.token
  /\ op' = Op("arrive", "none")
  /\ UNCHANGED <<docPreferences, modified, nextId, lastDispatched, serverVars>>

\* arrive that also discards the response of the latest request.
arriveDiscardsLatest(r) ==
  /\ r \in inflight
  /\ inflight' = inflight \ {r}
  /\ IF r.token <= lastDispatched
     THEN /\ op' = Op("arrive", "discarded")
          /\ UNCHANGED <<formState, applied>>
     ELSE /\ formState' = mergeServerFormState(formState, r.schemaPath, r.state)
          /\ applied' = r.token
          /\ op' = Op("arrive", "none")
  /\ UNCHANGED <<docPreferences, modified, nextId, lastDispatched, serverVars>>

\* The response of a request arrives: it is merged unless a later request
\* has been dispatched in the meantime.
arrive(r) ==
  /\ r \in inflight
  /\ inflight' = inflight \ {r}
  /\ IF r.token < lastDispatched
     THEN /\ op' = Op("arrive", "discarded")
          /\ UNCHANGED <<formState, applied>>
     ELSE /\ formState' = mergeServerFormState(formState, r.schemaPath, r.state)
          /\ applied' = r.token
          /\ op' = Op("arrive", "none")
  /\ UNCHANGED <<docPreferences, modified, nextId, lastDispatched, serverVars>>

NextSession ==
  \/ \E sp \in SessionSchemaPaths : dispatchRequest(sp, TRUE)
  \/ \E r \in inflight : arrive(r)
  \/ \E i \in Indices : removeRow(i)
  \/ \E c \in BOOLEAN : toggleCollapseAll(c)

SpecSession == Init /\ [][NextSession]_vars

\* ------------------------------------------------- buildFormStateHandler
adminUserSlug == "users"     \* req.payload.config.admin.user

UserSlugs == {"users", "customers"}

\* A request: the user and the user's collection (NoUser when nobody is
\* logged in), the admin access function of that collection (whether it
\* exists, what it returns, the message of the error it throws or "none"),
\* and whether the admin user collection has documents.
Req(user, slug, hasFn, can, throws, hasUsers) ==
  [user |-> user, collection |-> slug, hasAdminAccessFunction |-> hasFn,
   canAccessAdmin |-> can, throws |-> throws, hasUsers |-> hasUsers]

Requests ==
  {Req(u, c, f, a, IF f /\ t THEN "Access failed" ELSE "none", TRUE) :
     u \in Users, c \in UserSlugs, f \in BOOLEAN, a \in BOOLEAN, t \in BOOLEAN}
  \cup {Req(NoUser, NoUser, FALSE, FALSE, "none", h) : h \in BOOLEAN}

\* An access check that lets every request through.
accessCheckLetsEveryoneIn(req) == "none"

\* An access check that asks the admin access function only of users of
\* the admin user collection.
accessCheckOfAdminCollectionOnly(req) ==
  IF req.collection # NoUser
  THEN IF adminUserSlug # req.collection THEN "Unauthorized"
       ELSE IF ~req.hasAdminAccessFunction THEN "none"
       ELSE IF req.throws # "none" THEN req.throws
       ELSE IF ~req.canAccessAdmin THEN "Unauthorized" ELSE "none"
  ELSE IF req.hasUsers THEN "Unauthorized" ELSE "none"

\* The error the access check of the handler throws, "none" when it lets
\* the request through.
accessCheck(req) ==
  IF req.collection # NoUser
  THEN IF req.hasAdminAccessFunction
       THEN IF req.throws # "none" THEN req.throws
            ELSE IF ~req.canAccessAdmin THEN "Unauthorized" ELSE "none"
       ELSE IF adminUserSlug # req.collection THEN "Unauthorized" ELSE "none"
  ELSE IF req.hasUsers THEN "Unauthorized" ELSE "none"

\* formatErrors(err)
formatErrors(message) ==
  [NoResponse EXCEPT !.kind = "errors", !.message = message, !.logged = TRUE]

\* A catch block that hands the errors it does not know to its caller.
catchRethrows(message) ==
  IF message = "Could not find field schema for given path"
  THEN [NoResponse EXCEPT !.kind = "message", !.message = message, !.logged = TRUE]
  ELSE IF message = "Unauthorized"
  THEN [NoResponse EXCEPT !.kind = "null", !.logged = TRUE]
  ELSE [NoResponse EXCEPT !.kind = "thrown", !.message = message]

\* catch (err): the error is logged, then turned into the returned value.
catch(message) ==
  IF message = "Could not find field schema for given path"
  THEN [NoResponse EXCEPT !.kind = "message", !.message = message, !.logged = TRUE]
  ELSE IF message = "Unauthorized"
  THEN [NoResponse EXCEPT !.kind = "null", !.logged = TRUE]
  ELSE formatErrors(message)

\* if (returnLockStatus) lockedStateResult = await handleFormStateLocking(...)
handleFormStateLocking(returnLockStatus, lockDoc, req, time) ==
  IF returnLockStatus THEN acquireOrRefreshLock(lockDoc, req.user, time)
  ELSE [lock |-> lockDoc, lockState |-> NoLockState]

\* The server function: the access check, then buildFormState on the form
\* state the request carries, every error caught.  A request without a user
\* (the first user is being created) edits no document and asks for no lock.
buildFormStateHandler(req, schemaPath, returnLockStatus) ==
  /\ req.user = NoUser => ~returnLockStatus
  /\ LET denied == accessCheck(req)
         res == buildFormState(
                  RequestArgs(formState, CHOOSE d \in StaleDocs : TRUE, schemaPath, TRUE),
                  nextId)
         locked == handleFormStateLocking(returnLockStatus, lock, req, now)
         thrown == IF denied # "none" THEN denied ELSE res.err
     IN  /\ response' =
              IF thrown = "none"
              THEN [NoResponse EXCEPT !.kind = "success", !.built = TRUE,
                                      !.state = res.state,
                                      !.lockedState = locked.lockState]
              ELSE [catch(thrown) EXCEPT !.built = (denied = "none")]
         /\ lock' = IF thrown = "none" THEN locked.lock ELSE lock
  /\ op' = [Op("buildFormStateHandler", response'.kind) EXCEPT !.schemaPath = schemaPath]
  /\ UNCHANGED <<formVars, sessionVars, now, envVars>>

\* Time passes on the server.
tick ==
  /\ now < MaxTime
  /\ now' = now + 1
  /\ op' = Op("tick", "none")
  /\ UNCHANGED <<formVars, sessionVars, lock, response, envVars>>

\* Requests of several users to the server function, over time, on the form
\* states of the edited document.
NextHandler ==
  \/ \E req \in Requests, sp \in RequestSchemaPaths, rl \in BOOLEAN :
       buildFormStateHandler(req, sp, rl)
  \/ tick
  \/ \E i \in RowIndices : removeRow(i)

SpecHandler == Init /\ [][NextHandler]_vars

\* --------------------------------------------- lock acquisition in steps
\* acquireOrRefreshLock reads the lock document, then writes it: calls of
\* several users on the same document interleave between the two.
outsideLock == <<formVars, op, sessionVars, response, cacheVars, pendingAdd,
                 validateVars, cloud, renderCall>>

\* The call of user u reads the lock document.
findLock(u) ==
  /\ lockCalls[u].pc = "idle"
  /\ lockCalls' = [lockCalls EXCEPT ![u] = [NoLockCall EXCEPT !.pc = "read", !.seen = lock]]
  /\ UNCHANGED <<lock, now, storedDocument, outsideLock>>

\* The call of user u decides on the lock document it read and, unless
\* another user holds a fresh lock, writes the lock document.
updateLock(u) ==
  /\ lockCalls[u].pc = "read"
  /\ LET r == acquireOrRefreshLock(lockCalls[u].seen, u, now)
     IN  /\ lock' = IF r.lockState.isLocked THEN lock
                    ELSE writeLock(lock, lockCalls[u].seen, u, now)
         /\ lockCalls' = [lockCalls EXCEPT ![u].pc = "written",
                                           ![u].result = r.lockState]
  /\ UNCHANGED <<now, storedDocument, outsideLock>>

\* The call of user u returns its LockState.
returnLockState(u) ==
  /\ lockCalls[u].pc = "written"
  /\ lockCalls' = [lockCalls EXCEPT ![u] = NoLockCall]
  /\ UNCHANGED <<lock, now, storedDocument, outsideLock>>

\* User u saves the document: a write at the persistence layer.
saveDocument(u) ==
  /\ storedDocument' = IF canWrite(lock, u) THEN [updatedBy |-> u, rejected |-> FALSE]
                 ELSE [storedDocument EXCEPT !.rejected = TRUE]
  /\ UNCHANGED <<lock, now, lockCalls, outsideLock>>

\* Time passes while calls are in progress.
lockTick ==
  /\ now < MaxTime
  /\ now' = now + 1
  /\ UNCHANGED <<lock, lockCalls, storedDocument, outsideLock>>

NextLock ==
  \/ \E u \in Users : findLock(u)
  \/ \E u \in Users : updateLock(u)
  \/ \E u \in Users : returnLockState(u)
  \/ \E u \in Users : saveDocument(u)
  \/ lockTick

SpecLock == Init /\ [][NextLock]_vars

\* ------------------------------------------------------ getFieldSchemaMap
outsideCache == <<formVars, op, sessionVars, lock, now, response, lockVars,
                  pendingAdd, validateVars, cloud, renderCall>>

\* getFieldSchemaMap(args): outside development the cached map of the key
\* is returned when there is one and a map that is built is cached; in
\* development the map is built on every call.  The function does not
\* await: a call runs from its first line to its last.
getFieldSchemaMap(args) ==
  LET production == nodeEnv # "development"
      cachedEntityFieldMap == cachedFieldMap[cacheKey(args)]
      hit == production /\ cachedEntityFieldMap # NoMap
      entityFieldMap == buildFieldSchemaMap(args)
  IN  /\ cachedFieldMap' =
           IF production /\ ~hit
           THEN [cachedFieldMap EXCEPT ![cacheKey(args)] = entityFieldMap]
           ELSE cachedFieldMap
      /\ schemaMapCall' =
           [args |-> args,
            returned |-> IF hit THEN cachedEntityFieldMap ELSE entityFieldMap,
            consulted |-> production, built |-> ~hit]
      /\ UNCHANGED <<nodeEnv, outsideCache>>

\* The process restarts with a NODE_ENV: the cache starts empty.
restart(env) ==
  /\ nodeEnv' = env
  /\ cachedFieldMap' = [k \in CacheKeys |-> NoMap]
  /\ schemaMapCall' = NoSchemaMapCall
  /\ UNCHANGED outsideCache

\* Requests of one process call getFieldSchemaMap in any order.
NextCache ==
  \/ \E args \in SchemaMapArgs : getFieldSchemaMap(args)
  \/ \E env \in {"production", "development"} : restart(env)

SpecCache == Init /\ [][NextCache]_vars

\* ------------------------------------------- addRow across its await
\* addRow up to its await: the new row gets its id, the rows are read with
\* getDataByPath and addFieldRow is called with the data built from them.
addRowBegin(rowIndex) ==
  /\ ~pendingAdd.active
  /\ Len(rows) < MaxLen /\ nextId <= MaxId
  /\ LET newRow == [id |-> nextId, blockType |-> BlockType, text |-> Undefined]
         currentData == getDataByPath(formState)
     IN  pendingAdd' = [active |-> TRUE, data |-> currentData \o <<newRow>>]
  /\ nextId' = nextId + 1
  /\ op' = Op("addRowBegin", "none")
  /\ UNCHANGED <<formState, docPreferences, modified, sessionVars, lock, now,
                 response, lockVars, cacheVars, validateVars, cloud, renderCall>>

\* addFieldRow resolves: the form state built from the data it was called
\* with is written to the form, then addRow sets the modified flag.
addRowComplete ==
  /\ pendingAdd.active
  /\ LET data == [title |-> Undefined, items |-> pendingAdd.data]
         res == buildFormState(addFieldRowArgs(data), nextId)
     IN  /\ formState' = mergeServerFormState(formState, ItemsSchemaPath, res.state)
         /\ nextId' = nextId + res.fresh
         /\ op' = Op("addRow", res.err)
  /\ modified' = TRUE
  /\ pendingAdd' = NoPendingAdd
  /\ UNCHANGED <<docPreferences, sessionVars, lock, now, response, lockVars, cacheVars,
                 validateVars, cloud, renderCall>>

\* UI events while addRow may be awaiting addFieldRow.
NextAdd ==
  \/ \E i \in AddIndices : addRowBegin(i)
  \/ addRowComplete
  \/ \E i \in RowIndices : duplicateRow(i)
  \/ \E i \in RowIndices : removeRow(i)
  \/ \E i, j \in RowIndices : moveRow(i, j)

SpecAdd == Init /\ [][NextAdd]_vars

\* ------------------------------------------------ onInit of the cloud plugin
outsideCloud == <<formVars, op, sessionVars, lock, now, response, lockVars,
                  cacheVars, pendingAdd, validateVars, renderCall>>

\* payloadCloudPlugin(pluginOptions)(incomingConfig), once, when the config
\* is built.  With PAYLOAD_CLOUD = 'true' and config.jobs.tasks set,
\* config.onInit is assigned the function of lines 117-144, on the object
\* that function reads config.onInit from.
payloadCloudPlugin(pluginOptions, incomingConfig, env) ==
  LET result == resolvedConfig(pluginOptions, incomingConfig, env)
  IN  /\ ~cloud.plugin.called
      /\ cloud' = [cloud EXCEPT
                     !.plugin = [called |-> TRUE, pluginOptions |-> pluginOptions,
                                 incomingConfig |-> incomingConfig, env |-> env,
                                 result |-> result],
                     !.installed = result.kind = "config"
                                     /\ result.config.onInit = "plugin",
                     !.incomingOnInit = incomingConfig.onInit = "incoming"]
      /\ UNCHANGED outsideCloud

\* Payload calls config.onInit(payload) on instance i.
onInit(i) ==
  /\ cloud.installed
  /\ cloud.instances[i].pc = "idle"
  /\ cloud' = [cloud EXCEPT !.instances[i].pc = "called", !.instances[i].depth = 1]
  /\ UNCHANGED outsideCloud

\* if (config.onInit) { await config.onInit(payload) }: config.onInit is the
\* installed function, whatever the incoming config had, so the frame calls
\* the function it belongs to and waits for it at line 119.
callConfigOnInit(i) ==
  /\ cloud.instances[i].pc = "called"
  /\ cloud.instances[i].depth < MaxStack
  /\ cloud' = [cloud EXCEPT !.instances[i].depth = @ + 1]
  /\ UNCHANGED outsideCloud

\* The call stack of instance i is full: the call of line 119 throws a
\* RangeError and the promise of the innermost frame is rejected.
stackOverflow(i) ==
  /\ cloud.instances[i].pc = "called"
  /\ cloud.instances[i].depth = MaxStack
  /\ cloud' = [cloud EXCEPT !.instances[i].pc = "unwinding"]
  /\ UNCHANGED outsideCloud

\* The await of line 119 throws in the frame that waits for a rejected
\* call: the frame ends before line 121 and its own promise is rejected; the
\* rejection of the outermost frame is what Payload gets from onInit.
rejectFrame(i) ==
  /\ cloud.instances[i].pc = "unwinding"
  /\ cloud' = [cloud EXCEPT !.instances[i].depth = @ - 1,
                            !.instances[i].pc = IF cloud.instances[i].depth = 1
                                                THEN "rejected" ELSE "unwinding"]
  /\ UNCHANGED outsideCloud

\* The instances start in any order and run side by side.  Lines 121-143
\* (updateGlobal, findGlobal, new Cron) follow the await of line 119 in a
\* frame that has ended by then: no step of theirs exists.
NextOnInit ==
  \/ \E pluginOptions \in PluginOptions, incomingConfig \in IncomingConfigs,
        env \in Environments :
       payloadCloudPlugin(pluginOptions, incomingConfig, env)
  \/ \E i \in Instances : onInit(i)
  \/ \E i \in Instances : callConfigOnInit(i)
  \/ \E i \in Instances : stackOverflow(i)
  \/ \E i \in Instances : rejectFrame(i)

SpecOnInit == Init /\ [][NextOnInit]_vars

\* Every instance is a process of its own whose event loop runs what is
\* ready to run.
SpecOnInitFair == SpecOnInit /\ WF_vars(NextOnInit)

\* ------------------------------------------- validation of the blocks field
outsideValidate == <<formVars, op, sessionVars, lock, now, response, lockVars,
                     cacheVars, pendingAdd, cloud, renderCall>>

\* The field is rendered in a locale, under a localization config, with or
\* without a validate function, with the minRows (or none) and the required
\* flag of its field config.
render(l, l10n, isFunction, fieldMinRows, fieldRequired) ==
  /\ editing' = [locale |-> l, localization |-> l10n, validateIsFunction |-> isFunction,
                 minRowsProp |-> fieldMinRows, required |-> fieldRequired]
  /\ UNCHANGED <<validated, outsideValidate>>

\* useField runs memoizedValidate on the value of the field: null or the
\* number of rows.
runValidate(value) ==
  /\ validated' = memoizedValidateCall(value)
  /\ UNCHANGED <<editing, outsideValidate>>

NextValidate ==
  \/ \E l \in Locales, l10n \in Localizations, f \in BOOLEAN,
        m \in {UndefinedProp} \cup 0..MaxLen, r \in BOOLEAN :
       render(l, l10n, f, m, r)
  \/ \E value \in {Null} \cup 0..MaxLen : runValidate(value)

SpecValidate == Init /\ [][NextValidate]_vars

\* ------------------------------------- schema paths to render of a request
\* buildFormState is called with renderFields set or not, and with or
\* without a form state; each entry of the form state carries the schema
\* path of its field and may be flagged requiresRender.
computeSchemaPathsToRender(renderFields, hasFormState, flags) ==
  LET entries == [p \in DOMAIN flags |->
                      [requiresRender |-> flags[p],
                       schemaPath |-> toSchemaPath(DataPathOf(p))]]
  IN  /\ hasFormState \/ DOMAIN flags = {}
      /\ renderCall' =
           [called |-> TRUE, renderFields |-> renderFields,
            hasFormState |-> hasFormState, formState |-> entries,
            schemaPathsToRender |->
              schemaPathsToRender(renderFields, hasFormState, entries)]
      /\ UNCHANGED <<formVars, op, sessionVars, lock, now, response, lockVars,
                     cacheVars, pendingAdd, validateVars, cloud>>

NextRender ==
  \E renderFields \in BOOLEAN, hasFormState \in BOOLEAN,
     keys \in SUBSET {FormStateKeys[k] : k \in 1..Len(FormStateKeys)} :
    \E flags \in [keys -> BOOLEAN] :
      computeSchemaPathsToRender(renderFields, hasFormState, flags)

SpecRender == Init /\ [][NextRender]_vars

\* ===================================================== checked properties
\* Identity, collapsed flag and nested field states of the row at index k.
RowState(fs, k) ==
  [meta |-> fs[ItemsPath].rows[k + 1], fields |-> [s \in RowSubs |-> fs[RowPath(k, s)]]]

RowIdsOf(fs) == {fs[ItemsPath].rows[i].id : i \in 1..Len(fs[ItemsPath].rows)}

\* Entries outside the rows of "items" are the same in both form states.
SameOutsideRows(fs, gs) ==
  /\ {p \in DOMAIN fs : ~IsRowPath(p)} = {p \in DOMAIN gs : ~IsRowPath(p)}
  /\ \A p \in DOMAIN fs : (~IsRowPath(p) /\ p # ItemsPath) => gs[p] = fs[p]

\* The rows are addressed by the indices 0..n-1, each with all its sub fields.
Contiguous(fs) ==
  {p \in DOMAIN fs : IsRowPath(p)} =
    {RowPath(i, s) : i \in 0..(Len(fs[ItemsPath].rows) - 1), s \in RowSubs}

\* C5: the rows of a row-bearing field correspond one to one, in order, to
\* the elements of the field's value array: same length, and the i-th row
\* id is the id of the i-th element.
C5_RowsMatchValues ==
  LET items == reduceFieldsToValues(formState).items
  IN  /\ Len(rows) = Len(items)
      /\ formState[ItemsPath].value = Len(items)
      /\ \A i \in 1..Len(rows) : rows[i].id = items[i].id

C5_Witness ==
  /\ op.kind = "getFormState" /\ op.err = "none"
  /\ Len(rows) = 3
  /\ \E i \in 1..3 : rows[i].collapsed
  /\ rows[1].id > rows[2].id

\* C6: addRow(path, newRowId, insertAtIndex) places the new row at position
\* insertAtIndex; the rows formerly at indices >= insertAtIndex move up by
\* one with their nested field states, the rows before it are unchanged.
C6_AddRowAtIndex ==
  [][\A i \in AddIndices :
       (op'.kind = "addRow" /\ i <= Len(rows) /\ addRow(i)) =>
          /\ Len(rows') = Len(rows) + 1
          /\ rows'[i + 1].id = nextId
          /\ \A k \in 0..(i - 1) : RowState(formState', k) = RowState(formState, k)
          /\ \A k \in i..(Len(rows) - 1) :
               RowState(formState', k + 1) = RowState(formState, k)]_vars

\* C7: removeRow(path, i) with i in bounds removes the entries under path.i,
\* moves every later row down by one with unchanged field states and ids,
\* leaves the earlier rows unchanged and the row indices contiguous from 0.
C7_RemoveRow ==
  [][\A i \in Indices :
       (op'.kind = "removeRow" /\ InBounds(formState, i) /\ removeRow(i)) =>
          /\ op'.err = "none"
          /\ Len(rows') = Len(rows) - 1
          /\ rows[i + 1].id \notin RowIdsOf(formState')
          /\ \A k \in 0..(i - 1) : RowState(formState', k) = RowState(formState, k)
          /\ \A k \in (i + 1)..(Len(rows) - 1) :
               RowState(formState', k - 1) = RowState(formState, k)
          /\ Contiguous(formState')
          /\ SameOutsideRows(formState, formState')]_vars

C7_Witness ==
  /\ op.kind = "removeRow" /\ op.err = "none"
  /\ Len(rows) = 2
  /\ rows[1].id > rows[2].id

\* The index a row at index k has after the row at index i moved to index j.
MovedIndex(k, i, j) ==
  IF k = i THEN j
  ELSE IF i < j /\ i < k /\ k <= j THEN k - 1
  ELSE IF j < i /\ j <= k /\ k < i THEN k + 1
  ELSE k

\* C8: moveRow(path, i, j) with both indices in bounds keeps the rows and
\* puts the row formerly at i at j: every row keeps its id, its collapsed
\* flag and its nested field states under the data paths of its new index.
C8_MoveRow ==
  [][\A i \in Indices, j \in Indices :
       (op'.kind = "moveRow" /\ InBounds(formState, i) /\ InBounds(formState, j)
          /\ moveRow(i, j)) =>
          /\ op'.err = "none"
          /\ Len(rows') = Len(rows)
          /\ \A k \in 0..(Len(rows) - 1) :
               RowState(formState', MovedIndex(k, i, j)) = RowState(formState, k)
          /\ Contiguous(formState')
          /\ SameOutsideRows(formState, formState')]_vars

C8_Witness ==
  /\ op.kind = "moveRow" /\ op.err = "none"
  /\ Len(rows) = 3
  /\ rows[1].collapsed /\ ~rows[3].collapsed
  /\ rows[1].id > rows[3].id

\* C9: duplicateRow(path, i) inserts at i+1 a row with the nested values of
\* row i and an id no row of the field had; the source row is unchanged and
\* the rows formerly after i move up by one.
C9_DuplicateRow ==
  [][\A i \in Indices :
       (op'.kind = "duplicateRow" /\ InBounds(formState, i) /\ duplicateRow(i)) =>
          /\ op'.err = "none"
          /\ Len(rows') = Len(rows) + 1
          /\ \A k \in 0..i : RowState(formState', k) = RowState(formState, k)
          /\ \A s \in RowSubs \ {"id"} :
               formState'[RowPath(i + 1, s)].value = formState[RowPath(i, s)].value
          /\ formState'[RowPath(i + 1, "id")].value = rows'[i + 2].id
          /\ rows'[i + 2].id \notin RowIdsOf(formState)
          /\ \A k \in (i + 1)..(Len(rows) - 1) :
               RowState(formState', k + 1) = RowState(formState, k)
          /\ Contiguous(formState')]_vars

C9_Witness ==
  /\ op.kind = "duplicateRow" /\ op.err = "none"
  /\ Len(rows) = 3
  /\ formState[RowPath(0, "text")].value = 1
  /\ formState[RowPath(1, "text")].value = 1
  /\ formState[RowPath(2, "text")].value = 0

\* C10: a store operation that references a row index outside the current
\* bounds of the field signals StateIndexError and leaves the form state
\* unchanged.
C10_StateIndexError ==
  [][/\ \A i \in AddIndices :
          (addRow(i) /\ i > Len(rows)) =>
             (op'.err = "StateIndexError" /\ formState' = formState)
     /\ \A i \in Indices :
          ((removeRow(i) \/ duplicateRow(i)) /\ ~InBounds(formState, i)) =>
             (op'.err = "StateIndexError" /\ formState' = formState)
     /\ \A i \in Indices, j \in Indices :
          (moveRow(i, j) /\ ~(InBounds(formState, i) /\ InBounds(formState, j))) =>
             (op'.err = "StateIndexError" /\ formState' = formState)]_vars

\* What the server returns for a form-state request sent from the current
\* form state.
ResultFor(schemaPath, withPreferences) ==
  buildFormState(RequestArgs(formState, CHOOSE d \in StaleDocs : TRUE, schemaPath,
                             withPreferences), nextId)

IsRequest(schemaPath, withPreferences) ==
  /\ op'.kind = "getFormState" /\ op'.err = "none"
  /\ op'.schemaPath = schemaPath /\ op'.withPreferences = withPreferences
  /\ \E d \in StaleDocs : getFormState(d, schemaPath, withPreferences)

C1_StaleResponseDiscarded ==
  [][\A r \in inflight :
       (op'.kind = "arrive" /\ r.token < lastDispatched /\ arrive(r)) =>
          (formState' = formState /\ applied' = applied)]_vars

C1_Witness ==
  /\ op.kind = "arrive" /\ op.err = "discarded"
  /\ lastDispatched = 2 /\ applied = 2
  /\ inflight = {}

\* C2: when the last in-flight response arrives, the response merged last
\* is the one of the most recently dispatched request: its entries are in
\* the form state when it arrives last, and an earlier request's response
\* arriving last changes nothing.
C2_LatestRequestWins ==
  [][\A r \in inflight :
       (op'.kind = "arrive" /\ inflight' = {} /\ arrive(r)) =>
          /\ applied' = lastDispatched
          /\ r.token = lastDispatched =>
               \A p \in DOMAIN r.state : formState'[p] = r.state[p]
          /\ r.token < lastDispatched => formState' = formState]_vars

C2_Witness ==
  /\ op.kind = "arrive" /\ op.err = "none"
  /\ lastDispatched = 2 /\ applied = 2
  /\ inflight = {}

\* C11: addRow on a field whose row count already equals maxRows fails with
\* StateIndexError and adds no row.
C11_AddRowAtMaxRows ==
  [][\A i \in AddIndices :
       (op'.kind = "addRow" /\ hasMaxRows /\ addRow(i)) =>
          (op'.err = "StateIndexError" /\ Len(rows') = Len(rows))]_vars

EqualModuloCoercion(document, data) ==
  /\ document.title = data.title
  /\ Len(document.items) = Len(data.items)
  /\ \A i \in 1..Len(data.items) :
       /\ document.items[i].blockType = data.items[i].blockType
       /\ document.items[i].text = data.items[i].text
       /\ data.items[i].id # NoId => document.items[i].id = data.items[i].id

\* C13: reducing the form state that reconcile built from a document gives
\* that document back: reduceToValues(reconcile(data), includeHidden = true)
\* equals data, whether or not the call carries an existing form state.
C13_RoundTrip ==
  [][/\ \A w \in BOOLEAN :
          IsRequest(EntitySchemaPath, w) =>
             EqualModuloCoercion(
               reduceFieldsToValues(ResultFor(EntitySchemaPath, w).state),
               CHOOSE d \in StaleDocs : TRUE)
     /\ \A doc \in InitialDocs :
          EqualModuloCoercion(
            reduceFieldsToValues(buildFormState(InitialArgs(doc), nextId).state), doc)]_vars

\* C13 as amended: a call without an existing form state gives back its data
\* (rows without an id get one); a call with an existing form state ignores
\* its data and gives back the document reduced from that form state, the
\* rows of "items" also when only the schema path of "items" is requested.
C13_RoundTripOfSource ==
  [][/\ \A sp \in SessionSchemaPaths, w \in BOOLEAN :
          IsRequest(sp, w) =>
             LET result == reduceFieldsToValues(ResultFor(sp, w).state)
                 existing == reduceFieldsToValues(formState)
             IN  /\ result.items = existing.items
                 /\ sp = EntitySchemaPath => result = existing
     /\ \A doc \in InitialDocs :
          EqualModuloCoercion(
            reduceFieldsToValues(buildFormState(InitialArgs(doc), nextId).state), doc)
     /\ \A i \in AddIndices :
          (op'.kind = "addRow" /\ addRow(i)) =>
             reduceFieldsToValues(formState').items =
               getDataByPath(formState) \o
                 <<[id |-> nextId, blockType |-> BlockType, text |-> Undefined]>>]_vars

C13_Witness ==
  /\ op.kind = "getFormState" /\ op.err = "none"
  /\ op.schemaPath = EntitySchemaPath
  /\ Len(rows) >= 2
  /\ ~EqualModuloCoercion(reduceFieldsToValues(formState), CHOOSE d \in StaleDocs : TRUE)


\* C14: for every schema path s and every assignment idx of row indices of
\* the current rows, toSchemaPath(toDataPath(s, idx)) = s; two form-state
\* keys that differ only in their row index have the same schema path.
C14_PathRoundTrip ==
  /\ \A s \in DOMAIN fieldSchemaMap :
       \A idx \in [1..RowSegmentsUpTo(s, Len(s)) -> RowIndices] :
          toSchemaPath(toDataPath(s, idx)) = s
  /\ \A p \in DOMAIN formState, q \in DOMAIN formState :
       (p.field = q.field /\ p.sub = q.sub /\ IsRowPath(p) /\ IsRowPath(q)) =>
          toSchemaPath(DataPathOf(p)) = toSchemaPath(DataPathOf(q))

C14_Witness ==
  /\ Len(rows) = 3
  /\ DataPathOf(RowPath(0, "text")) # DataPathOf(RowPath(2, "text"))
  /\ toDataPath(<<collectionSlug, "items", blockSlug, "text">>, <<2>>)
       = DataPathOf(RowPath(2, "text"))
  /\ RowPath(2, "text") \in DOMAIN formState


\* The branches of the handler in which the access check fails.
AccessDenied(req) ==
  \/ req.collection # NoUser /\ req.hasAdminAccessFunction
       /\ req.throws = "none" /\ ~req.canAccessAdmin
  \/ req.collection # NoUser /\ ~req.hasAdminAccessFunction
       /\ req.collection # adminUserSlug
  \/ req.collection = NoUser /\ req.hasUsers

\* C15: in every branch where the access check fails buildFormStateHandler
\* returns the null sentinel, buildFormState is not invoked, no form state
\* is built and the lock is not touched.
C15_UnauthorizedIsNull ==
  [][\A req \in Requests, sp \in RequestSchemaPaths, rl \in BOOLEAN :
       (op'.kind = "buildFormStateHandler" /\ op'.schemaPath = sp
          /\ AccessDenied(req) /\ buildFormStateHandler(req, sp, rl)) =>
          /\ response'.kind = "null"
          /\ ~response'.built
          /\ response'.state = NoStates
          /\ ~response'.lockedState.defined
          /\ lock' = lock]_vars

C15_Witness ==
  /\ op.kind = "buildFormStateHandler"
  /\ response.kind = "null" /\ ~response.built
  /\ lock.owner # NoUser

\* C16: when the requested schemaPath is absent from the field schema map,
\* no form state is produced and buildFormStateHandler returns the
\* { message } result that carries the schema-resolution message.
C16_SchemaResolutionError ==
  [][\A req \in Requests, sp \in RequestSchemaPaths, rl \in BOOLEAN :
       (op'.kind = "buildFormStateHandler" /\ op'.schemaPath = sp
          /\ sp \notin DOMAIN fieldSchemaMap
          /\ ~AccessDenied(req) /\ req.throws = "none"
          /\ buildFormStateHandler(req, sp, rl)) =>
          /\ response'.state = NoStates
          /\ response'.kind = "message"]_vars

LockRequest(req, sp) ==
  /\ op'.kind = "buildFormStateHandler" /\ op'.err = "success"
  /\ op'.schemaPath = sp
  /\ req.user # NoUser
  /\ buildFormStateHandler(req, sp, TRUE)

C20_ForeignLockReported ==
  [][\A req \in Requests, sp \in RequestSchemaPaths :
       (lock.owner \notin {NoUser, req.user}
          /\ now - lock.lastEditedAt < lockDuration /\ LockRequest(req, sp)) =>
          /\ response'.lockedState.defined
          /\ response'.lockedState.isLocked
          /\ response'.lockedState.editingUser = lock.owner
          /\ lock' = lock]_vars

C20_Witness ==
  /\ op.kind = "buildFormStateHandler" /\ op.err = "success"
  /\ response.lockedState.isLocked
  /\ response.lockedState.editingUser = "u2"
  /\ lock.owner = "u2"
  /\ now = lock.lastEditedAt + 1


\* C17: a field that fails validation during reconcile gets valid = false
\* and an error message in its own field state and the call does not abort:
\* every other field in scope gets the field state it would get had the
\* failing field been valid.
C17_ValidationFailureIsData ==
  [][\A d \in StaleDocs, w \in BOOLEAN :
       (op'.kind = "getFormState" /\ op'.schemaPath = EntitySchemaPath
          /\ op'.withPreferences = w /\ getFormState(d, EntitySchemaPath, w)) =>
          LET result == ResultFor(EntitySchemaPath, w).state
              title == LeafValue(formState, TitlePath)
              withValidTitle ==
                buildFormState(
                  RequestArgs(UPDATE(formState, TitlePath, 1), d, EntitySchemaPath, w),
                  nextId).state
              msg == validate(Len(rows), [minRows |-> minRowsProp, maxRows |-> maxRows,
                                          required |-> required])
          IN  /\ op'.err = "none"
              /\ result[TitlePath] = Leaf(title, validateText(title))
              /\ ~validateText(title) => result[TitlePath].errorMessage # ""
              /\ result[ItemsPath].valid = (msg = "true")
              /\ msg # "true" => result[ItemsPath].errorMessage = msg
              /\ DOMAIN result = DOMAIN withValidTitle
              /\ \A p \in DOMAIN result \ {TitlePath} : result[p] = withValidTitle[p]
              /\ \A p \in DOMAIN result :
                   IsRowPath(p) => (result[p].valid /\ result[p].value = formState[p].value)]_vars

C17_Witness ==
  /\ op.kind = "getFormState" /\ op.err = "none"
  /\ op.schemaPath = EntitySchemaPath
  /\ ~formState[TitlePath].valid
  /\ ~formState[ItemsPath].valid
  /\ Len(rows) = 3

\* C21: acquireOrRefreshLock by user u on a document whose lock is held by
\* another user but is older than the staleness threshold reclaims it: u
\* becomes the owner, lastEditedAt is refreshed and isLocked = false is
\* returned.
C21_StaleLockReclaimed ==
  [][\A u \in Users :
       LET seen == lockCalls[u].seen
       IN  (lockCalls[u].pc = "read" /\ lockCalls'[u].pc = "written"
              /\ seen.owner \notin {NoUser, u}
              /\ now - seen.lastEditedAt > lockDuration
              /\ updateLock(u)) =>
             /\ lock' = [owner |-> u, lastEditedAt |-> now]
             /\ lockCalls'[u].result = LockState(FALSE, now, u)]_vars

C21_Witness ==
  /\ lockCalls["u1"].pc = "written"
  /\ lockCalls["u1"].seen = [owner |-> "u2", lastEditedAt |-> 0]
  /\ ~lockCalls["u1"].result.isLocked
  /\ now = 3
  /\ lock = [owner |-> "u1", lastEditedAt |-> 3]

\* C22: when two users run acquireOrRefreshLock on the same unlocked or
\* stale document in any interleaving, the lock ends with exactly one owner,
\* the user whose acquisition was written last, and no write of the document
\* is ever rejected because of the lock.
C22_LastWriteWins ==
  [][\A u \in Users :
       LET seen == lockCalls[u].seen
       IN  /\ (lockCalls[u].pc = "read" /\ lockCalls'[u].pc = "written"
                 /\ (seen.owner = NoUser \/ now - seen.lastEditedAt > lockDuration)
                 /\ updateLock(u)) =>
                /\ lock' = [owner |-> u, lastEditedAt |-> now]
                /\ ~lockCalls'[u].result.isLocked
           /\ (storedDocument' # storedDocument /\ saveDocument(u)) =>
                storedDocument' = [updatedBy |-> u, rejected |-> FALSE]]_vars

C22_Witness ==
  /\ \A u \in Users :
       /\ lockCalls[u].pc = "written"
       /\ lockCalls[u].seen = NoLock
       /\ ~lockCalls[u].result.isLocked
  /\ lock.owner = "u2"
  /\ storedDocument = [updatedBy |-> "u1", rejected |-> FALSE]

\* The entity a call asks for.
EntityOf(args) == buildFieldSchemaMap(args).entity

\* C23: outside development the schema map is built once per (entity,
\* locale context): every call of getFieldSchemaMap returns a map built for
\* the entity and the locale context of its arguments, and a call that
\* finds a map of its entity and locale context in the cache does not
\* build; in development every call builds and the cache is not consulted.
C23_BuiltOncePerEntityAndLocale ==
  [][\A args \in SchemaMapArgs :
       (schemaMapCall'.args = args /\ getFieldSchemaMap(args)) =>
          IF nodeEnv # "development"
          THEN /\ schemaMapCall'.returned = buildFieldSchemaMap(args)
               /\ (\E k \in CacheKeys : cachedFieldMap[k] = buildFieldSchemaMap(args))
                     => ~schemaMapCall'.built
          ELSE /\ schemaMapCall'.built
               /\ ~schemaMapCall'.consulted
               /\ cachedFieldMap' = cachedFieldMap]_vars

\* C24: whatever the order of the getFieldSchemaMap calls of concurrent
\* requests, every cache entry is the map built from the configuration of
\* the entity it is keyed by and every caller receives the map of the
\* entity it asked for.
C24_CacheNeverCorrupted ==
  [][\A args \in SchemaMapArgs :
       (schemaMapCall'.args = args /\ getFieldSchemaMap(args)) =>
          /\ schemaMapCall'.returned.entity = EntityOf(args)
          /\ \A a \in SchemaMapArgs :
               cachedFieldMap'[cacheKey(a)] # NoMap =>
                 cachedFieldMap'[cacheKey(a)].entity = EntityOf(a)
          /\ \A k \in CacheKeys :
               cachedFieldMap'[k] # NoMap =>
                 \E a \in SchemaMapArgs :
                   k = cacheKey(a) /\ cachedFieldMap'[k] = buildFieldSchemaMap(a)]_vars

C24_Witness ==
  /\ nodeEnv = "production"
  /\ cachedFieldMap[collectionSlug] # NoMap
  /\ cachedFieldMap["users"] # NoMap
  /\ cachedFieldMap["settings"] # NoMap
  /\ schemaMapCall.args.globalSlug = "settings"
  /\ schemaMapCall.returned = cachedFieldMap["settings"]
  /\ ~schemaMapCall.built

\* The ids of the rows of a form state, in order.
RowIdSeq(fs) == [i \in 1..Len(fs[ItemsPath].rows) |-> fs[ItemsPath].rows[i].id]

\* C25: no structural mutation takes effect between another structural
\* mutation's read of the row list and its write: while addRow awaits
\* addFieldRow the rows do not change, and the write of addRow keeps the
\* rows as they are at that moment and appends the new row, so that no
\* removeRow, moveRow or duplicateRow dispatched in the meantime is lost or
\* reverted.
C25_NoInterleavedMutation ==
  [][/\ (pendingAdd.active /\ pendingAdd'.active) =>
          RowIdSeq(formState') = RowIdSeq(formState)
     /\ (pendingAdd.active /\ ~pendingAdd'.active /\ addRowComplete) =>
          RowIdSeq(formState') =
            RowIdSeq(formState) \o <<pendingAdd.data[Len(pendingAdd.data)].id>>]_vars

\* Every entry of the form state but the rows of "items" is the same in both.
SameButCollapsed(fs, gs) ==
  /\ DOMAIN gs = DOMAIN fs
  /\ \A p \in DOMAIN fs : p # ItemsPath => gs[p] = fs[p]
  /\ gs[ItemsPath] = [fs[ItemsPath] EXCEPT !.rows = gs[ItemsPath].rows]
  /\ RowIdSeq(gs) = RowIdSeq(fs)

CollapsedIds(fs) ==
  {fs[ItemsPath].rows[i].id :
     i \in {k \in 1..Len(fs[ItemsPath].rows) : fs[ItemsPath].rows[k].collapsed}}

\* C26: setRowCollapsed(path, rowId, c) changes only the collapsed flag of
\* the row with that id and setAllRowsCollapsed(path, c) sets the flag of
\* every row to c; both keep the ids, the count and the order of the rows
\* and every field value, and the collapsedIDs they return are exactly the
\* ids of the rows whose flag is set in updatedRows.
C26_CollapseTogglesOnlyFlags ==
  [][\A c \in BOOLEAN :
       /\ (op'.kind = "toggleCollapseAll" /\ toggleCollapseAll(c)) =>
            /\ SameButCollapsed(formState, formState')
            /\ \A i \in 1..Len(rows) : formState'[ItemsPath].rows[i].collapsed = c
            /\ docPreferences' = Prefs(CollapsedIds(formState'))
       /\ \A id \in RowIds :
            (op'.kind = "setCollapse" /\ setCollapse(id, c)) =>
              /\ SameButCollapsed(formState, formState')
              /\ \A i \in 1..Len(rows) :
                   formState'[ItemsPath].rows[i].collapsed =
                     IF rows[i].id = id THEN c ELSE rows[i].collapsed
              /\ docPreferences' = Prefs(CollapsedIds(formState'))]_vars

C26_Witness ==
  /\ op.kind = "setCollapse"
  /\ Len(rows) = 3
  /\ rows[1].collapsed /\ ~rows[2].collapsed /\ rows[3].collapsed
  /\ docPreferences = Prefs({rows[1].id, rows[3].id})

\* The session edits a locale other than the default one: localization is
\* configured with fallback enabled and the locale is not the default locale.
EditingOtherLocale ==
  /\ editing.localization.configured
  /\ editing.localization.fallback
  /\ editing.locale # (IF editing.localization.defaultLocale = ""
                       THEN "en" ELSE editing.localization.defaultLocale)

\* C27: a null value of a blocks field passes validation without the
\* validator of the field being consulted exactly when the session is not
\* editing the default locale; when it edits the default locale, or when
\* localization or fallback is not configured, the null value is passed to
\* the validator with the required, minRows and maxRows constraints.
C27_NullPassesInOtherLocales ==
  [][(validated'.value = Null /\ editing.validateIsFunction /\ runValidate(Null)) =>
       IF EditingOtherLocale
       THEN ~validated'.consulted /\ validated'.result = "true"
       ELSE /\ validated'.consulted
            /\ validated'.options =
                 [maxRows |-> maxRows, minRows |-> minRows,
                  required |-> editing.required]
            /\ validated'.result = validate(Null, validated'.options)]_vars

C27_Witness ==
  /\ editing.locale = "de"
  /\ editing.localization = [configured |-> TRUE, fallback |-> TRUE, defaultLocale |-> ""]
  /\ editing.validateIsFunction
  /\ validated.value = Null
  /\ ~validated.consulted
  /\ validated.result = "true"

\* C30: the onInit installed by the plugin terminates: it does not fail, it
\* is entered once on each instance, and when it has ended the onInit of the
\* incoming config has been called exactly once when there is one.
C30_OnInitCallsIncomingOnce ==
  \A i \in Instances :
    LET instance == cloud.instances[i]
    IN  /\ instance.pc \notin {"unwinding", "rejected"}
        /\ instance.depth <= 1
        /\ instance.pc = "resolved" =>
             instance.incomingCalls = IF cloud.incomingOnInit THEN 1 ELSE 0

\* C29: when several instances with configured jobs run onInit, their
\* onInit completes without failure and at least one of them, the one whose
\* write was last, eventually schedules the cron jobs.
C29_LastWriterSchedules ==
  (\A i \in Instances : cloud.instances[i].pc # "idle")
    ~> (\E i \in Instances : cloud.instances[i].scheduled)

\* C31: payloadCloudPlugin resolves to a config object for every input: the
\* incoming config unchanged when PAYLOAD_CLOUD is not 'true', and the
\* config with cloud storage and cloud email configured when it is 'true',
\* whether or not config.jobs.tasks is set.
C31_ResolvesToConfig ==
  cloud.plugin.called =>
    LET call == cloud.plugin
    IN  /\ call.result.kind = "config"
        /\ call.env.PAYLOAD_CLOUD # "true" =>
             call.result.config = call.incomingConfig
        /\ call.env.PAYLOAD_CLOUD = "true" =>
             /\ call.result.config.storage = call.pluginOptions.storage
             /\ call.result.config.email =
                  (call.pluginOptions.email /\ call.env.emailKeys)
             /\ call.result.config.tasks = call.incomingConfig.tasks

\* C32: the schema paths to render computed by buildFormState are every key
\* of the field schema map when renderFields is true, whatever the flags of
\* the form state; otherwise exactly the schema paths of the entries of the
\* supplied form state whose requiresRender flag is set; and none when
\* renderFields is false and no form state is supplied.
C32_SchemaPathsToRender ==
  renderCall.called =>
    LET paths == {renderCall.schemaPathsToRender[k] :
                    k \in DOMAIN renderCall.schemaPathsToRender}
        flagged == {p \in DOMAIN renderCall.formState :
                      renderCall.formState[p].requiresRender}
    IN  /\ renderCall.renderFields => paths = DOMAIN fieldSchemaMap
        /\ ~renderCall.renderFields /\ renderCall.hasFormState =>
             paths = {renderCall.formState[p].schemaPath : p \in flagged}
        /\ ~renderCall.renderFields /\ ~renderCall.hasFormState => paths = {}

\* A form state with a flagged and an unflagged entry was supplied without
\* renderFields, and only the flagged entry's schema path is rendered.
C32_Witness ==
  /\ renderCall.called
  /\ ~renderCall.renderFields
  /\ renderCall.hasFormState
  /\ DOMAIN renderCall.formState = {TitlePath, RowPath(0, "text")}
  /\ renderCall.formState[TitlePath].requiresRender
  /\ ~renderCall.formState[RowPath(0, "text")].requiresRender
  /\ renderCall.schemaPathsToRender = <<TitleSchemaPath>>

\* C33: when a form state is supplied to buildFormState, the data that is
\* reconciled is the document reduced from that form state: the result is
\* the same for every incoming data, and it is the result of a call
\* without a form state on the reduced document (next to the upload entry
\* kept from the form state).  Without a form state the incoming data is
\* what the result is built from.
C33_DataDeducedFromFormState ==
  [][/\ \A sp \in SessionSchemaPaths, w \in BOOLEAN :
          IsRequest(sp, w) =>
             LET res == ResultFor(sp, w)
                 reduced == reduceFieldsToValues(formState)
                 fromReduced ==
                   buildFormState(
                     [RequestArgs(formState, reduced, sp, w) EXCEPT
                        !.hasFormState = FALSE], nextId)
             IN  /\ \A d \in InitialDocs \cup StaleDocs :
                      buildFormState(RequestArgs(formState, d, sp, w), nextId) = res
                 /\ res.fresh = fromReduced.fresh
                 /\ DOMAIN fromReduced.state \subseteq DOMAIN res.state
                 /\ DOMAIN res.state \subseteq DOMAIN fromReduced.state \cup {FilePath}
                 /\ \A p \in DOMAIN fromReduced.state :
                      res.state[p] = fromReduced.state[p]
     /\ \A doc \in InitialDocs \cup StaleDocs :
          LET res == buildFormState(InitialArgs(doc), nextId)
          IN  /\ res.state[TitlePath].value = doc.title
              /\ Len(res.state[ItemsPath].rows) = Len(doc.items)]_vars

\* A request for the rows alone was answered from a form state with one row
\* and a title that the data sent along does not have.
C33_Witness ==
  /\ op.kind = "getFormState" /\ op.err = "none"
  /\ op.schemaPath = ItemsSchemaPath
  /\ Len(rows) = 1
  /\ formState[TitlePath].value = 1
  /\ \A d \in StaleDocs : d.title = 0 /\ d.items = <<>>

\* C34: buildFormStateHandler goes on to build the form state exactly when
\* the request is authorized: for a logged-in user whose collection defines
\* an admin access function, when that function returns a truthy value,
\* whatever the collection; for a logged-in user without such a function,
\* when the user's collection is config.admin.user; without a user, when
\* the admin user collection has no documents.
\* Stated as: no step of the handler serves a request whose place in this
\* table differs from what the step did.
C34_AccessDecision ==
  [][op'.kind = "buildFormStateHandler" =>
       /\ \A req \in Requests, sp \in RequestSchemaPaths, rl \in BOOLEAN :
            (/\ op'.schemaPath = sp
             /\ response'.built #
                  (IF req.user = NoUser THEN ~req.hasUsers
                   ELSE IF req.hasAdminAccessFunction
                        THEN req.throws = "none" /\ req.canAccessAdmin
                        ELSE req.collection = adminUserSlug)) =>
               ~buildFormStateHandler(req, sp, rl)
       /\ ~response'.built => response'.state = NoStates /\ lock' = lock]_vars

\* A request that asked for no lock status was let through and answered
\* with a form state after an earlier request had taken the lock.
C34_Witness ==
  /\ op.kind = "buildFormStateHandler"
  /\ response.kind = "success" /\ response.built
  /\ ~response.lockedState.defined
  /\ lock.owner # NoUser

\* C35: the minRows constraint that the blocks field passes to its validate
\* function is the minRows of the field config whenever one is configured,
\* and otherwise 1 when the field is required and 0 when it is not.
C35_MinRowsPassedToValidate ==
  [][\A value \in {Null} \cup 0..MaxLen :
       (validated'.consulted /\ validated'.value = value /\ runValidate(value)) =>
          validated'.options.minRows =
            IF editing.minRowsProp # UndefinedProp THEN editing.minRowsProp
            ELSE IF editing.required THEN 1 ELSE 0]_vars

====
